---------------------------- MODULE Spec2Model ----------------------------
(***************************************************************************)
(* Model of rsn_status_monitor.py (ooi-status): the memoised stream        *)
(* identity lookup, the counts ingestion of the bulk (Cassandra) collector,*)
(* the per-stream (uFrame HTTP) collector and the status classifier, over  *)
(* a SQLAlchemy session (autocommit=True, explicit begin()) and the        *)
(* process-wide cachetools LRU cache.                                      *)
(***************************************************************************)
EXTENDS Integers, Sequences, FiniteSets, TLC

-----------------------------------------------------------------------------
(* Bounds of the model *)

\* observations (rows of the bulk query, per-stream HTTP queries) processed
\* in one behaviour, over all gather cycles
MaxSteps == 4
\* capacity of the LRU cache in the model (cachetools.LRUCache(3000) in the
\* source, scaled so that eviction happens with the keys of the model)
CacheSize == 2

-----------------------------------------------------------------------------
(* Values *)

\* Python None / SQL NULL. A value v that may be None is held as <<v>>.
Null == <<>>

\* A name is the sequence of its dash-free segments: '-'.join is the
\* concatenation of segment sequences, split('-') reads the segments back.
Subsites == {<<"A">>}
Nodes == {<<"B">>}
Sensors == {<<"C">>, <<"D">>, <<"05", "E">>}
StreamNames == {"st1"}
MethodNames == {"telemetered"}
ParticleCounts == {90, 100, 110}

\* An NTP timestamp (seconds since 1900-01-01) is <<days, seconds>>, standing
\* for days * 86400 + seconds.
SecondsPerDay == 86400
NtpTimes == {<<25567, 0>>, <<25567, 10>>, <<25567, 20>>}

\* datetime.datetime(1970, 1, 1) - datetime.datetime(1900, 1, 1), in days
EpochOffsetDays == 25567

\* ntp_epoch_offset = (1970-01-01 - 1900-01-01).total_seconds(), as <<days, seconds>>
ntp_epoch_offset == <<EpochOffsetDays, 0>>

\* a conversion that counts 70 years of 365 days between the two epochs
ToTimestampNoLeapDays(ntp) ==
    (ntp[1] - 70 * 365) * SecondsPerDay + ntp[2]

\* utcfromtimestamp(ntp_timestamp - ntp_epoch_offset): seconds since 1970-01-01
ToTimestamp(ntp) ==
    (ntp[1] - ntp_epoch_offset[1]) * SecondsPerDay + (ntp[2] - ntp_epoch_offset[2])

\* rows of: select subsite, node, sensor, stream, method, count, last.
\* The first sensor reports 100 at one time and, at a later time, a higher or
\* a lower count; the others report one value.
CassRows ==
    {r \in Subsites \X Nodes \X Sensors \X StreamNames \X MethodNames
                    \X ParticleCounts \X NtpTimes :
        /\ r[3] = <<"C">> => \/ (r[6] = 100 /\ r[7] = <<25567, 10>>)
                             \/ (r[6] # 100 /\ r[7] = <<25567, 20>>)
        /\ r[3] = <<"D">> => (r[6] = 100 /\ r[7] = <<25567, 0>>)
        /\ r[3] = <<"05", "E">> => (r[6] = 100 /\ r[7] = <<25567, 10>>)}

RECURSIVE SeqsUpTo(_, _)
SeqsUpTo(S, n) ==
    IF n = 0 THEN {<<>>}
    ELSE LET shorter == SeqsUpTo(S, n - 1)
         IN  shorter \cup {Append(s, x) : s \in {t \in shorter : Len(t) = n - 1}, x \in S}

\* refdes = '-'.join((subsite, node, sensor))
JoinRefdes(subsite, node, sensor) == subsite \o node \o sensor

\* parse_reference_designator: ref_des.split('-', 2)
parse_reference_designator(ref_des) ==
    <<  <<ref_des[1]>>, <<ref_des[2]>>, SubSeq(ref_des, 3, Len(ref_des)) >>


-----------------------------------------------------------------------------
(* The relational store and the ORM objects *)

\* A store (or the session's view of it inside a transaction):
\*   rd     rows of ReferenceDesignator  [id, name]
\*   es     rows of ExpectedStream       [id, name, method, rate, warn_interval, fail_interval]
\*   ds     rows of DeployedStream       [id, ref_des, expected_stream]
\*   counts rows of Counts in insertion order [stream, particle_count, timestamp]
EmptyStore == [rd |-> {}, es |-> {}, ds |-> {}, counts |-> <<>>]

Ids(rows) == {r.id : r \in rows}

\* the next value of a table's id sequence: ids are never reused while any
\* row or object still carries them
FreshId(used) ==
    CHOOSE i \in 1..(Cardinality(used) + 1) :
        i \notin used /\ \A j \in 1..(i - 1) : j \in used

\* ReferenceDesignator(name=refdes)
ReferenceDesignator(id, name) == [id |-> id, name |-> name]

\* ExpectedStream(name=..., method=..., rate=..., warn_interval=..., fail_interval=...)
ExpectedStream(id, name, method, rate, warn, fail) ==
    [id |-> id, name |-> name, method |-> method, rate |-> rate,
     warn_interval |-> warn, fail_interval |-> fail]

\* DeployedStream(ref_des=_refdes, expected_stream=expected), as a row
DeployedStream(id, rdId, esId) == [id |-> id, ref_des |-> rdId, expected_stream |-> esId]

\* Counts(stream=deployed, particle_count=count, timestamp=timestamp)
Counts(dsId, count, timestamp) ==
    [stream |-> dsId, particle_count |-> count, timestamp |-> timestamp]

\* The DeployedStream object the program holds: the row's id together with
\* the ReferenceDesignator and ExpectedStream objects it references.
DeployedObject(D, R, E) ==
    [id |-> D.id,
     ref_des |-> [id |-> R.id, name |-> R.name],
     expected_stream |-> [id |-> E.id, name |-> E.name, method |-> E.method]]

\* The uniqueness constraints of the schema: ReferenceDesignator by name,
\* ExpectedStream by (name, method), DeployedStream by (ref_des, expected_stream).
UniqueViolation(s) ==
    \/ \E a, b \in s.rd : a.id # b.id /\ a.name = b.name
    \/ \E a, b \in s.es : a.id # b.id /\ a.name = b.name /\ a.method = b.method
    \/ \E a, b \in s.ds : a.id # b.id /\ a.ref_des = b.ref_des
                                      /\ a.expected_stream = b.expected_stream

\* BaseStatusMonitor._get_or_create_stream, the decorated function's body:
\* three lookups, each followed by a creation when nothing is found.
\* used.rd, used.es, used.ds are the ids already taken in each table.
get_or_create_stream(s, used, refdes, stream, method) ==
    LET foundR == {r \in s.rd : r.name = refdes}
        R  == IF foundR = {} THEN ReferenceDesignator(FreshId(used.rd), refdes)
              ELSE CHOOSE r \in foundR : TRUE
        s1 == IF foundR = {} THEN [s EXCEPT !.rd = @ \cup {R}] ELSE s
        foundE == {e \in s1.es : e.name = stream /\ e.method = method}
        E  == IF foundE = {}
              THEN ExpectedStream(FreshId(used.es), stream, method, Null, Null, Null)
              ELSE CHOOSE e \in foundE : TRUE
        s2 == IF foundE = {} THEN [s1 EXCEPT !.es = @ \cup {E}] ELSE s1
        foundD == {d \in s2.ds : d.ref_des = R.id /\ d.expected_stream = E.id}
        D  == IF foundD = {} THEN DeployedStream(FreshId(used.ds), R.id, E.id)
              ELSE CHOOSE d \in foundD : TRUE
        s3 == IF foundD = {} THEN [s2 EXCEPT !.ds = @ \cup {D}] ELSE s2
    IN  [session |-> s3, deployed |-> DeployedObject(D, R, E)]

\* rows of Counts.stream == deployed_stream
CountsOf(s, dsId) == {i \in 1..Len(s.counts) : s.counts[i].stream = dsId}

\* BaseStatusMonitor._get_last_count: the first row of the query ordered by
\* timestamp descending, or None. Rows of equal timestamp come in an order
\* the database does not fix, so each of them may be the first: the
\* operator gives the set of results the query can have.
get_last_count(s, dsId) ==
    LET mine == CountsOf(s, dsId)
        top  == {i \in mine : \A j \in mine : s.counts[j].timestamp <= s.counts[i].timestamp}
    IN  IF mine = {} THEN {Null} ELSE {<<s.counts[i]>> : i \in top}

\* session.add without the cascade: only the Counts row is staged
session_add_counts_only(s, deployed, count, timestamp) ==
    [s EXCEPT !.counts = Append(@, Counts(deployed.id, count, timestamp))]

\* session.add(count): the save-update cascade of the ORM puts the Counts and
\* every object reachable from it that the session does not hold yet (the
\* DeployedStream it is attached to, its ReferenceDesignator and its
\* ExpectedStream) into the session.
session_add_counts(s, deployed, count, timestamp) ==
    LET R == deployed.ref_des
        E == deployed.expected_stream
    IN  [rd |-> IF R.id \in Ids(s.rd) THEN s.rd
                ELSE s.rd \cup {ReferenceDesignator(R.id, R.name)},
         es |-> IF E.id \in Ids(s.es) THEN s.es
                ELSE s.es \cup {ExpectedStream(E.id, E.name, E.method, Null, Null, Null)},
         ds |-> IF deployed.id \in Ids(s.ds) THEN s.ds
                ELSE s.ds \cup {DeployedStream(deployed.id, R.id, E.id)},
         counts |-> Append(s.counts, Counts(deployed.id, count, timestamp))]

-----------------------------------------------------------------------------
(* cachetools.LRUCache and cachetools.cached *)

\* The cache is the sequence of its entries [k, v], least recently used first.
CacheKeys(c) == {c[i].k : i \in 1..Len(c)}

CacheGet(c, k) == (CHOOSE i \in 1..Len(c) : c[i].k = k)

SeqRemove(q, i) == SubSeq(q, 1, i - 1) \o SubSeq(q, i + 1, Len(q))

\* LRUCache.__getitem__: a hit makes the entry the most recently used
CacheTouch(c, k) == Append(SeqRemove(c, CacheGet(c, k)), c[CacheGet(c, k)])

\* LRUCache.__setitem__ of a new key: evict least recently used entries
\* until the new one fits
CachePut(c, k, v) ==
    LET kept == IF Len(c) >= CacheSize THEN SubSeq(c, Len(c) - CacheSize + 2, Len(c)) ELSE c
    IN  Append(kept, [k |-> k, v |-> v])

\* a memoising wrapper that stores the entry before the function has
\* returned: a call that raises leaves an entry behind
CacheAfterFailedCall(c, k) ==
    CachePut(c, k, [id |-> 0, ref_des |-> [id |-> 0, name |-> k[1]],
                    expected_stream |-> [id |-> 0, name |-> k[2], method |-> k[3]]])

\* cachetools.cached when the decorated function raises: the exception
\* leaves the wrapper before cache[k] = v, the cache is as it was
CacheAfterRaise(c, k) == c

\* @cachetools.cached(cache) around _get_or_create_stream: a hit returns the
\* memoised object without touching the session; a miss runs the function
\* and stores what it returned.
cached_get_or_create_stream(c, s, used, refdes, stream, method) ==
    LET k == <<refdes, stream, method>>
    IN  IF k \in CacheKeys(c)
        THEN [cache |-> CacheTouch(c, k), session |-> s,
              deployed |-> c[CacheGet(c, k)].v, hit |-> TRUE]
        ELSE LET r == get_or_create_stream(s, used, refdes, stream, method)
             IN  [cache |-> CachePut(c, k, r.deployed), session |-> r.session,
                  deployed |-> r.deployed, hit |-> FALSE]

\* the body of the for loop of _counts_from_rows for the unpacked row u:
\* the results it can have, each with the cache and the session it leaves
counts_from_row(c, s, used, u) ==
    LET timestamp == ToTimestamp(u.ntp_timestamp)
        refdes == JoinRefdes(u.subsite, u.node, u.sensor)
        r == cached_get_or_create_stream(c, s, used, refdes, u.stream, u.method)
    IN  {IF last_count = Null \/ last_count[1].particle_count # u.count
         THEN [cache |-> r.cache, deployed |-> r.deployed, hit |-> r.hit, appended |-> TRUE,
               session |-> session_add_counts(r.session, r.deployed, u.count, timestamp)]
         ELSE [cache |-> r.cache, deployed |-> r.deployed, hit |-> r.hit, appended |-> FALSE,
               session |-> r.session] :
            last_count \in get_last_count(r.session, r.deployed.id)}

-----------------------------------------------------------------------------
(* State *)

VARIABLES
    db,          \* the committed relational store
    tx,          \* the session's view: db plus what the open transaction staged
    pendingBad,  \* the session holds staged rows that break a unique constraint
    cache,       \* the process-wide LRU cache of _get_or_create_stream
    pc,          \* "idle", or the gather_all in progress: "cass" / "uframe"
    batch,       \* rows of _query_cassandra the last cycle has taken so far
    todo,        \* DeployedStream ids the uFrame cycle still has to query
    steps,       \* observations processed so far
    ev,          \* the step taken last
    resolved,    \* per cache key, the id the last _get_or_create_stream returned
    prevRow,     \* the row ingested last, while its effect is still in the session
    failedBatch, \* of the bulk cycle that failed just before this one: the rows it
                 \* took, where it failed and the store it began with; or Null
    failedCass,  \* "row" / "commit": the cycle that ended last was a bulk cycle
                 \* and failed there; "no" otherwise
    dbBegin,     \* the committed store when the last cycle began
    classified   \* the last call of status(): <<stream id, rate, state>>, or Null

vars == <<db, tx, pendingBad, cache, pc, batch, todo, steps, ev,
          resolved, prevRow, failedBatch, failedCass, dbBegin, classified>>

\* for loop of _counts_from_rows: (subsite, node, sensor, method, stream,
\* count, ntp_timestamp) is bound to the columns in query order
Unpack(row) ==
    [subsite |-> row[1], node |-> row[2], sensor |-> row[3], method |-> row[4],
     stream |-> row[5], count |-> row[6], ntp_timestamp |-> row[7]]

\* the arguments of _get_or_create_stream for a row, which are its cache key
KeyOf(row) ==
    LET u == Unpack(row)
    IN  <<JoinRefdes(u.subsite, u.node, u.sensor), u.stream, u.method>>

AllKeys == {KeyOf(r) : r \in CassRows}

CachedObjects == {cache[i].v : i \in 1..Len(cache)}

\* ids taken in each table: by committed rows, by rows of the open
\* transaction and by objects the program still holds
UsedIds ==
    [rd |-> Ids(db.rd) \cup Ids(tx.rd) \cup {o.ref_des.id : o \in CachedObjects},
     es |-> Ids(db.es) \cup Ids(tx.es) \cup {o.expected_stream.id : o \in CachedObjects},
     ds |-> Ids(db.ds) \cup Ids(tx.ds) \cup {o.id : o \in CachedObjects}
            \cup ({resolved[k] : k \in AllKeys} \ {0})]

\* op: the step; ret: the id _get_or_create_stream returned (0: none);
\* hit: it was served by the cache; appended: a Counts row was added
Event(op, ret, hit, appended) ==
    [op |-> op, ret |-> ret, hit |-> hit, appended |-> appended]

Init ==
    /\ db = EmptyStore
    /\ tx = EmptyStore
    /\ pendingBad = FALSE
    /\ cache = <<>>
    /\ pc = "idle"
    /\ batch = <<>>
    /\ todo = {}
    /\ steps = 0
    /\ ev = Event("init", 0, FALSE, FALSE)
    /\ resolved = [k \in AllKeys |-> 0]
    /\ prevRow = Null
    /\ failedBatch = Null
    /\ failedCass = "no"
    /\ dbBegin = EmptyStore
    /\ classified = Null

\* a session without the transaction: what was flushed before the exception
\* stays in the store
RollbackKeepsFlushed ==
    /\ db' = tx
    /\ tx' = tx
    /\ pendingBad' = FALSE
    /\ pc' = "idle"
    /\ todo' = {}
    /\ prevRow' = Null
    /\ failedCass' = IF pc # "cass" THEN "no"
                     ELSE IF ev'.op = "commit_failed" THEN "commit" ELSE "row"
    /\ UNCHANGED <<failedBatch, dbBegin, classified>>

\* the with-block of session.begin() left by an exception: the transaction
\* is rolled back, the session forgets what it staged
Rollback ==
    /\ tx' = db
    /\ pendingBad' = FALSE
    /\ pc' = "idle"
    /\ todo' = {}
    /\ prevRow' = Null
    /\ failedCass' = IF pc # "cass" THEN "no"
                     ELSE IF ev'.op = "commit_failed" THEN "commit" ELSE "row"
    /\ UNCHANGED <<db, failedBatch, dbBegin, classified>>

-----------------------------------------------------------------------------
(* CassStatusMonitor.gather_all *)

\* gather_all: _query_cassandra returns the result set, _counts_from_rows
\* opens the transaction
CassBegin ==
    /\ pc = "idle"
    /\ steps < MaxSteps
    /\ pc' = "cass"
    /\ batch' = <<>>
    /\ failedBatch' = IF failedCass # "no" THEN <<batch, failedCass, db>> ELSE Null
    /\ dbBegin' = db
    /\ ev' = Event("begin", 0, FALSE, FALSE)
    /\ UNCHANGED <<db, tx, pendingBad, cache, todo, steps, resolved, prevRow, failedCass,
                   classified>>

\* one iteration of the loop of _counts_from_rows that raises nothing
CassRow ==
    /\ pc = "cass"
    /\ steps < MaxSteps
    /\ ~pendingBad
    /\ \E row \in CassRows :
        \E r \in counts_from_row(cache, tx, UsedIds, Unpack(row)) :
            /\ batch' = Append(batch, row)
            /\ cache' = r.cache
            /\ resolved' = [resolved EXCEPT ![KeyOf(row)] = r.deployed.id]
            /\ tx' = r.session
            /\ pendingBad' = UniqueViolation(r.session)
            /\ ev' = Event("row", r.deployed.id, r.hit, r.appended)
            /\ prevRow' = <<row>>
    /\ steps' = steps + 1
    /\ UNCHANGED <<db, pc, todo, failedBatch, failedCass, dbBegin, classified>>

\* a query of _get_or_create_stream finds the store unavailable: the call
\* raises before cachetools stores anything, the cycle is rolled back
CassResolveFail ==
    /\ pc = "cass"
    /\ steps < MaxSteps
    /\ ~pendingBad
    /\ \E row \in CassRows :
        /\ KeyOf(row) \notin CacheKeys(cache)
        /\ batch' = Append(batch, row)
        /\ cache' = CacheAfterRaise(cache, KeyOf(row))
    /\ ev' = Event("resolve_failed", 0, FALSE, FALSE)
    /\ steps' = steps + 1
    /\ Rollback
    /\ UNCHANGED resolved

\* the row raises after _get_or_create_stream returned (the store is
\* unavailable for the query of _get_last_count): the cycle is rolled back
CassRowFail ==
    /\ pc = "cass"
    /\ steps < MaxSteps
    /\ ~pendingBad
    /\ \E row \in CassRows :
        LET u == Unpack(row)
            refdes == JoinRefdes(u.subsite, u.node, u.sensor)
            r == cached_get_or_create_stream(cache, tx, UsedIds, refdes, u.stream, u.method)
        IN  /\ batch' = Append(batch, row)
            /\ cache' = r.cache
            /\ resolved' = [resolved EXCEPT ![KeyOf(row)] = r.deployed.id]
            /\ ev' = Event("row_failed", r.deployed.id, r.hit, FALSE)
    /\ steps' = steps + 1
    /\ Rollback

\* the session holds rows that break a unique constraint: the flush before
\* the next query raises IntegrityError. A cache hit is served before the
\* query of _get_last_count flushes; a miss flushes at its first query.
CassFlushError ==
    /\ pc = "cass"
    /\ steps < MaxSteps
    /\ pendingBad
    /\ \E row \in CassRows :
        /\ batch' = Append(batch, row)
        /\ IF KeyOf(row) \in CacheKeys(cache)
           THEN /\ cache' = CacheTouch(cache, KeyOf(row))
                /\ resolved' = [resolved EXCEPT ![KeyOf(row)] =
                                    cache[CacheGet(cache, KeyOf(row))].v.id]
                /\ ev' = Event("flush_failed", resolved'[KeyOf(row)], TRUE, FALSE)
           ELSE /\ UNCHANGED <<cache, resolved>>
                /\ ev' = Event("flush_failed", 0, FALSE, FALSE)
    /\ steps' = steps + 1
    /\ Rollback

\* the loop is over and the with-block commits the transaction
CassCommit ==
    /\ pc = "cass"
    /\ ~pendingBad
    /\ db' = tx
    /\ pc' = "idle"
    /\ ev' = Event("commit", 0, FALSE, FALSE)
    /\ failedCass' = "no"
    /\ UNCHANGED <<tx, pendingBad, cache, batch, todo, steps, resolved, prevRow,
                   failedBatch, dbBegin, classified>>

\* the commit raises: the store is unavailable, or the flush of the commit
\* finds the unique constraint broken
CassCommitFail ==
    /\ pc = "cass"
    /\ ev' = Event("commit_failed", 0, FALSE, FALSE)
    /\ Rollback
    /\ UNCHANGED <<cache, batch, steps, resolved>>

-----------------------------------------------------------------------------
(* UframeStatusMonitor.gather_all *)

\* entries {stream, method, count, endTime} of a metadata/times response
UframeEntries ==
    {[stream |-> n[1], method |-> n[2], count |-> 120, endTime |-> 30] :
        n \in {<<"st1", "telemetered">>, <<"telemetered", "st1">>}}

\* what requests.get returns: a status code and, with 200, a JSON array
UframeResponses ==
    {[status_code |-> 503, json |-> <<>>]}
        \cup {[status_code |-> 200, json |-> b] : b \in SeqsUpTo(UframeEntries, 2)}

\* the url of _query_api: EDEX_BASE_URL filled with the parsed reference
\* designator, followed by /metadata/times
UframeUrl(name) ==
    LET p == parse_reference_designator(name)
    IN  <<"sensor", "inv", p[1], p[2], p[3], "metadata", "times">>

\* UframeStatusMonitor._query_api after requests.get returned: (count,
\* timestamp) of the first entry matching stream and method, (0, 0) when the
\* status code is not 200 or nothing matches
query_api(response, stream, method) ==
    IF response.status_code # 200 THEN <<0, 0>>
    ELSE LET body == response.json
             hits == {i \in 1..Len(body) :
                         body[i].stream = stream /\ body[i].method = method}
         IN  IF hits = {} THEN <<0, 0>>
             ELSE LET i == CHOOSE h \in hits : \A g \in hits : h <= g
                  IN  <<body[i].count, body[i].endTime>>

\* the ReferenceDesignator and ExpectedStream rows of a DeployedStream row
RefDesOf(s, d) == CHOOSE r \in s.rd : r.id = d.ref_des
ExpectedOf(s, d) == CHOOSE e \in s.es : e.id = d.expected_stream
DeployedById(s, id) == CHOOSE d \in s.ds : d.id = id

\* a _create_counts that attaches the Counts to a DeployedStream it makes
create_counts_new_stream(s, d, got) ==
    LET id == FreshId(Ids(s.ds))
    IN  [s EXCEPT !.ds = @ \cup {DeployedStream(id, d.ref_des, d.expected_stream)},
                  !.counts = Append(@, Counts(id, got[1], got[2]))]

\* UframeStatusMonitor._create_counts after _query_api returned got =
\* (count, timestamp): Counts(stream=deployed_stream, ...) is added; the
\* DeployedStream was loaded by the session, nothing else is staged
create_counts(s, d, got) ==
    [s EXCEPT !.counts = Append(@, Counts(d.id, got[1], got[2]))]

\* gather_all opens the transaction and loads every DeployedStream
UframeBegin ==
    /\ pc = "idle"
    /\ steps < MaxSteps
    /\ pc' = "uframe"
    /\ todo' = Ids(tx.ds)
    /\ failedBatch' = Null
    /\ batch' = <<>>
    /\ dbBegin' = db
    /\ ev' = Event("begin", 0, FALSE, FALSE)
    /\ UNCHANGED <<db, tx, pendingBad, cache, steps, resolved, prevRow, failedCass,
                   classified>>

\* _create_counts for one stream whose HTTP call returned: a Counts row of
\* what _query_api gives is added
UframeStream ==
    /\ pc = "uframe"
    /\ steps < MaxSteps
    /\ \E id \in todo, response \in UframeResponses :
        LET d == DeployedById(tx, id)
            url == UframeUrl(RefDesOf(tx, d).name)
            e == ExpectedOf(tx, d)
            got == query_api(response, e.name, e.method)
            op == IF response.status_code # 200 THEN "http_failed"
                  ELSE IF got = <<0, 0>> THEN "http_nomatch" ELSE "http_ok"
        IN  /\ Len(url) >= 7
            /\ tx' = create_counts(tx, d, got)
            /\ todo' = todo \ {id}
            /\ ev' = Event(op, id, FALSE, TRUE)
    /\ steps' = steps + 1
    /\ prevRow' = Null
    /\ UNCHANGED <<db, pendingBad, cache, pc, batch, resolved, failedBatch, failedCass, dbBegin, classified>>

\* requests.get raises (connection failure, timeout): nothing catches the
\* exception, it leaves gather_all through the with-block
UframeCallFail ==
    /\ pc = "uframe"
    /\ steps < MaxSteps
    /\ \E id \in todo : ev' = Event("http_raised", id, FALSE, FALSE)
    /\ steps' = steps + 1
    /\ Rollback
    /\ UNCHANGED <<cache, batch, resolved>>

\* every stream was queried and the with-block commits
UframeCommit ==
    /\ pc = "uframe"
    /\ todo = {}
    /\ db' = tx
    /\ pc' = "idle"
    /\ ev' = Event("commit", 0, FALSE, FALSE)
    /\ failedCass' = "no"
    /\ UNCHANGED <<tx, pendingBad, cache, batch, todo, steps, resolved, prevRow,
                   failedBatch, dbBegin, classified>>

\* the store is unavailable for a query or for the commit
UframeStoreFail ==
    /\ pc = "uframe"
    /\ ev' = Event("commit_failed", 0, FALSE, FALSE)
    /\ Rollback
    /\ UNCHANGED <<cache, batch, steps, resolved>>

-----------------------------------------------------------------------------
(* BaseStatusMonitor.read_expected_csv *)

\* rows (stream, method, expected rate (Hz), timeout) a CSV file can hold
CsvRows == << <<"st1", "telemetered", 9, 5>>, <<"telemetered", "st1", 9, 5>> >>

\* the body of the loop of read_expected_csv for one row: a new
\* ExpectedStream is built and added, nothing is looked up
read_expected_csv(s, used, row) ==
    [s EXCEPT !.es = @ \cup {ExpectedStream(FreshId(used.es), row[1], row[2],
                                            <<row[3]>>, <<row[4]>>, <<row[4]>>)}]

\* read_expected_csv of a file of one row, committed by the with-block
ReadExpectedCsv ==
    /\ pc = "idle"
    /\ steps < MaxSteps
    /\ \E i \in 1..Len(CsvRows) :
        LET s == read_expected_csv(tx, UsedIds, CsvRows[i])
        IN  /\ ~UniqueViolation(s)
            /\ db' = s
            /\ tx' = s
            /\ ev' = Event("import", i, FALSE, FALSE)
    /\ steps' = steps + 1
    /\ UNCHANGED <<pendingBad, cache, pc, batch, todo, resolved, prevRow, failedBatch,
                   failedCass, dbBegin, classified>>

\* read_expected_csv of a row whose (name, method) the store already holds:
\* the flush of the commit raises IntegrityError, the with-block rolls back
ReadExpectedCsvFail ==
    /\ pc = "idle"
    /\ steps < MaxSteps
    /\ \E i \in 1..Len(CsvRows) :
        /\ UniqueViolation(read_expected_csv(tx, UsedIds, CsvRows[i]))
        /\ ev' = Event("import_failed", i, FALSE, FALSE)
    /\ steps' = steps + 1
    /\ UNCHANGED <<db, tx, pendingBad, cache, pc, batch, todo, resolved, prevRow,
                   failedBatch, failedCass, dbBegin, classified>>

\* status(deployed_stream) called on the monitor while a gather_all of the
\* same monitor is inside its with-block: last_rate calls session.begin() on
\* the session whose transaction is already begun, which raises
\* InvalidRequestError before the with-block of last_rate is entered. The
\* transaction of the cycle is not touched.
StatusInCycle ==
    /\ pc # "idle"
    /\ \E d \in tx.ds : ev' = Event("status_raised", d.id, FALSE, FALSE)
    /\ UNCHANGED <<db, tx, pendingBad, cache, pc, batch, todo, steps, resolved, prevRow,
                   failedBatch, failedCass, dbBegin, classified>>

-----------------------------------------------------------------------------

Next ==
    \/ CassBegin
    \/ CassRow
    \/ CassResolveFail
    \/ CassRowFail
    \/ CassFlushError
    \/ CassCommit
    \/ CassCommitFail
    \/ UframeBegin
    \/ UframeStream
    \/ UframeCallFail
    \/ UframeCommit
    \/ UframeStoreFail

Spec == Init /\ [][Next]_vars

\* gather cycles interleaved with threshold imports
NextImport ==
    \/ Next
    \/ ReadExpectedCsv
    \/ ReadExpectedCsvFail

SpecImport == Init /\ [][NextImport]_vars

\* gather cycles with calls of status() arriving while a cycle is in progress
NextConcurrent ==
    \/ Next
    \/ StatusInCycle

SpecConcurrent == Init /\ [][NextConcurrent]_vars

-----------------------------------------------------------------------------
(* BaseStatusMonitor.status and last_rate *)

\* A rate is the fraction <<numerator, denominator>>; the denominator is the
\* time between two samples and is never negative.
ZeroRate == <<0, 1>>

\* Counts.rate(prior):
\* (this.particle_count - prior.particle_count) / (this.timestamp - prior.timestamp)
Counts_rate(this, prior) ==
    <<this.particle_count - prior.particle_count, this.timestamp - prior.timestamp>>

\* the division by a zero time difference raises
RateRaises(r) == r[2] = 0

\* a last_rate whose query has no filter on the stream
last_rate_any_stream(s, dsId) ==
    LET mine == 1..Len(s.counts)
        ts(i) == s.counts[i].timestamp
        first2 == {p \in mine \X mine :
                     /\ p[1] # p[2]
                     /\ ts(p[1]) >= ts(p[2])
                     /\ \A j \in mine \ {p[1], p[2]} : ts(j) <= ts(p[2])}
    IN  IF Cardinality(mine) < 2 THEN {ZeroRate}
        ELSE {Counts_rate(s.counts[p[1]], s.counts[p[2]]) : p \in first2}

\* BaseStatusMonitor.last_rate: 0 with fewer than two Counts of the stream,
\* else counts[0].rate(counts[1]) over the first two rows of the query
\* ordered by timestamp descending. Rows of equal timestamp come in either
\* order: the operator gives the set of results the call can have.
last_rate(s, dsId) ==
    LET mine == CountsOf(s, dsId)
        ts(i) == s.counts[i].timestamp
        first2 == {p \in mine \X mine :
                     /\ p[1] # p[2]
                     /\ ts(p[1]) >= ts(p[2])
                     /\ \A j \in mine \ {p[1], p[2]} : ts(j) <= ts(p[2])}
    IN  IF Cardinality(mine) < 2 THEN {ZeroRate}
        ELSE {Counts_rate(s.counts[p[1]], s.counts[p[2]]) : p \in first2}

\* the truth value Python gives a threshold in a condition: None and 0 are false
Truthy(x) == x # Null /\ x[1] # 0

\* rate < x, for a rate whose denominator is positive
Below(r, x) == r[1] < x[1] * r[2]

\* status with expected_rate read from the rate column
status_expected_from_rate(r, expected_stream) ==
    LET warn_interval == expected_stream.warn_interval
        fail_interval == expected_stream.fail_interval
        expected_rate == expected_stream.rate
    IN  IF Truthy(warn_interval) /\ Below(r, warn_interval)
        THEN IF Truthy(expected_rate) /\ Below(r, expected_rate)
             THEN "PARTIAL" ELSE "OPERATIONAL"
        ELSE IF Truthy(fail_interval) /\ Below(r, fail_interval)
             THEN "PARTIAL" ELSE "FAILURE"

\* status without the nested test of expected_rate
status_without_downgrade(r, expected_stream) ==
    LET warn_interval == expected_stream.warn_interval
        fail_interval == expected_stream.fail_interval
    IN  IF Truthy(warn_interval) /\ Below(r, warn_interval)
        THEN "OPERATIONAL"
        ELSE IF Truthy(fail_interval) /\ Below(r, fail_interval)
             THEN "PARTIAL" ELSE "FAILURE"

\* BaseStatusMonitor.status, after rate = self.last_rate(deployed_stream)
status(r, expected_stream) ==
    LET warn_interval == expected_stream.warn_interval
        fail_interval == expected_stream.fail_interval
        expected_rate == expected_stream.fail_interval
    IN  IF Truthy(warn_interval) /\ Below(r, warn_interval)
        THEN IF Truthy(expected_rate) /\ Below(r, expected_rate)
             THEN "PARTIAL" ELSE "OPERATIONAL"
        ELSE IF Truthy(fail_interval) /\ Below(r, fail_interval)
             THEN "PARTIAL" ELSE "FAILURE"

\* The classifier on its own: a store with a deployed stream whose
\* thresholds and log of samples are drawn from small sets, and a second
\* deployed stream that has no sample or one, stored before or after them.
MaxSamples == 2
ThresholdValues == {Null, <<0>>, <<2>>, <<5>>, <<10>>}
ExpectedRates == {Null, <<9>>}
SampleCounts == {99, 100, 101, 103, 108, 112}
SampleTimes == {10, 11}

OtherSample == Counts(2, 500, 12)

StatusStores ==
    {[rd |-> {ReferenceDesignator(1, <<"A", "B", "C">>), ReferenceDesignator(2, <<"A", "B", "D">>)},
      es |-> {ExpectedStream(1, "st1", "telemetered", rate, warn, fail)},
      ds |-> {DeployedStream(1, 1, 1), DeployedStream(2, 2, 1)},
      counts |-> before \o log \o after] :
        rate \in ExpectedRates, warn \in ThresholdValues, fail \in ThresholdValues,
        log \in SeqsUpTo({Counts(1, c, t) : c \in SampleCounts, t \in SampleTimes},
                         MaxSamples),
        before \in {<<>>, <<OtherSample>>}, after \in {<<>>, <<OtherSample>>}}

InitStatus ==
    /\ db \in StatusStores
    /\ tx = db
    /\ dbBegin = db
    /\ pendingBad = FALSE
    /\ cache = <<>>
    /\ pc = "idle"
    /\ batch = <<>>
    /\ todo = {}
    /\ steps = 0
    /\ ev = Event("init", 0, FALSE, FALSE)
    /\ resolved = [k \in AllKeys |-> 0]
    /\ prevRow = Null
    /\ failedBatch = Null
    /\ failedCass = "no"
    /\ classified = Null

\* status(deployed_stream) returns a state
Status ==
    /\ pc = "idle"
    /\ classified = Null
    /\ \E d \in db.ds : \E r \in last_rate(db, d.id) :
          /\ ~RateRaises(r)
          /\ classified' = <<d.id, r, status(r, ExpectedOf(db, d))>>
    /\ UNCHANGED <<db, tx, pendingBad, cache, pc, batch, todo, steps, ev, resolved,
                   prevRow, failedBatch, failedCass, dbBegin>>

\* status(deployed_stream) raises in Counts.rate: the two newest samples
\* carry the same timestamp
StatusRaises ==
    /\ pc = "idle"
    /\ classified = Null
    /\ \E d \in db.ds : \E r \in last_rate(db, d.id) :
          /\ RateRaises(r)
          /\ classified' = <<d.id, r, "ZeroDivisionError">>
    /\ UNCHANGED <<db, tx, pendingBad, cache, pc, batch, todo, steps, ev, resolved,
                   prevRow, failedBatch, failedCass, dbBegin>>

NextStatus ==
    \/ Status
    \/ StatusRaises

SpecStatus == InitStatus /\ [][NextStatus]_vars

-----------------------------------------------------------------------------
(* Claims *)

\* the row the last step took from the result set
LastRow == batch[Len(batch)]

\* the step is an iteration of _counts_from_rows that raised nothing
RowStep == pc = "cass" /\ ev'.op = "row" /\ Len(batch') = Len(batch) + 1

\* C1 (dedup idempotence): when the ingestion pipeline is fed the
\* observation it was fed just before, in the same batch or as the first row
\* of the next batch, the second feeding appends no Counts row.
C1_DedupIdempotence ==
    [][(RowStep /\ prevRow = <<batch'[Len(batch')]>>) => tx'.counts = tx.counts]_vars

\* C2 (identity idempotence): a call of _get_or_create_stream returns the
\* DeployedStream identity the previous call with the same (refdes, stream,
\* method) returned, whether the cache still held the entry or not, and the
\* committed store never holds two ReferenceDesignator rows of one name, two
\* ExpectedStream rows of one (name, method) or two DeployedStream rows of
\* one pair.
C2_IdentityIdempotence ==
    /\ [][\A k \in AllKeys : resolved[k] # 0 => resolved'[k] = resolved[k]]_vars
    /\ [](~UniqueViolation(db))

\* a cycle ended with an exception
FailOps == {"resolve_failed", "row_failed", "flush_failed", "commit_failed", "http_raised"}

\* C3 (cache agrees with the store): between gather cycles every entry of
\* the cache maps its (refdes, stream, method) key to a DeployedStream row of
\* the committed store whose ReferenceDesignator has that name and whose
\* ExpectedStream has that name and method.
C3_CacheAgreesWithStore ==
    pc = "idle" =>
        \A i \in 1..Len(cache) :
            \E d \in db.ds, r \in db.rd, e \in db.es :
                /\ d.id = cache[i].v.id
                /\ r.id = d.ref_des /\ r.name = cache[i].k[1]
                /\ e.id = d.expected_stream
                /\ e.name = cache[i].k[2] /\ e.method = cache[i].k[3]

\* C4 (batch atomicity): while a gather cycle runs, and after it failed, the
\* committed store is what it was when the cycle began; when it commits, the
\* committed store is everything the cycle staged, identities and Counts
\* together.
C4_BatchAtomicity ==
    /\ pc # "idle" => db = dbBegin
    /\ ev.op \in FailOps => db = dbBegin /\ tx = db
    /\ ev.op = "commit" => db = tx

\* a cycle that staged rows of all four tables has failed
C4_Witness ==
    /\ ev.op = "row_failed"
    /\ Len(batch) >= 2
    /\ resolved[KeyOf(batch[1])] # 0
    /\ db = EmptyStore

\* C5 (row to identity): the Counts row ingestion adds for a row of the bulk
\* query is attached to the DeployedStream whose reference designator is
\* subsite-node-sensor, whose ExpectedStream has the row's stream column as
\* name and the row's method column as method, and carries the row's count.
C5_RowToIdentity ==
    [][(RowStep /\ ev'.appended) =>
          LET row == batch'[Len(batch')]
              c == tx'.counts[Len(tx'.counts)]
              d == DeployedById(tx', c.stream)
          IN  /\ RefDesOf(tx', d).name = JoinRefdes(row[1], row[2], row[3])
              /\ ExpectedOf(tx', d).name = row[4]
              /\ ExpectedOf(tx', d).method = row[5]
              /\ c.particle_count = row[6]]_vars

\* C8 (a failed lookup caches nothing): when _get_or_create_stream raises
\* because the store is unavailable, the cache is left exactly as it was and
\* holds no entry for the key, so the next call with that key queries the
\* store again.
C8_FailedResolveCachesNothing ==
    [][ev'.op = "resolve_failed" =>
          /\ cache' = cache
          /\ KeyOf(batch'[Len(batch')]) \notin CacheKeys(cache')]_vars

\* a lookup has failed while the cache held entries of other keys
C8_Witness ==
    /\ ev.op = "resolve_failed"
    /\ Len(cache) = CacheSize
    /\ KeyOf(LastRow) \notin CacheKeys(cache)

\* A store without its ids: the names in each table with their number of
\* rows, and the Counts log with each row's stream named by its key.
KeyOfStream(s, id) ==
    IF id \in Ids(s.ds)
    THEN LET d == DeployedById(s, id)
         IN  IF d.ref_des \in Ids(s.rd) /\ d.expected_stream \in Ids(s.es)
             THEN <<RefDesOf(s, d).name, ExpectedOf(s, d).name, ExpectedOf(s, d).method>>
             ELSE <<"dangling">>
    ELSE <<"dangling">>

Abs(s) ==
    [rd |-> {<<r.name, Cardinality({x \in s.rd : x.name = r.name})>> : r \in s.rd},
     es |-> {<<e.name, e.method, e.rate, e.warn_interval, e.fail_interval,
               Cardinality({x \in s.es : x.name = e.name /\ x.method = e.method})>> :
                e \in s.es},
     ds |-> {<<KeyOfStream(s, d.id),
               Cardinality({x \in s.ds : KeyOfStream(s, x.id) = KeyOfStream(s, d.id)})>> :
                d \in s.ds},
     counts |-> [i \in 1..Len(s.counts) |->
                    <<KeyOfStream(s, s.counts[i].stream), s.counts[i].particle_count,
                      s.counts[i].timestamp>>]]

StoreIds(s) == [rd |-> Ids(s.rd), es |-> Ids(s.es), ds |-> Ids(s.ds)]

\* the stores one successful ingestion of rows can leave, starting from
\* store s with nothing memoised
RECURSIVE IngestOnce(_, _)
IngestOnce(s, rows) ==
    IF rows = <<>> THEN {s}
    ELSE UNION {IngestOnce(r.session, Tail(rows)) :
                    r \in counts_from_row(<<>>, s, StoreIds(s), Unpack(Head(rows)))}

IsPrefix(p, q) == Len(p) <= Len(q) /\ SubSeq(q, 1, Len(p)) = p

\* the bulk cycle that ended last was given again the observations of the
\* failed cycle before it: the same result set, of which the failed cycle
\* had taken all rows (it failed at the commit) or the first ones
Redelivered ==
    /\ failedBatch # Null
    /\ IF failedBatch[2] = "commit" THEN batch = failedBatch[1]
       ELSE IsPrefix(failedBatch[1], batch)

\* C9 (retry safety): when a bulk cycle fails and the next cycle is given the
\* same observations and commits, the committed store is, up to row ids, a
\* store that one successful ingestion of these observations leaves from the
\* store the failed cycle began with.
C9_RetrySafety ==
    (ev.op = "commit" /\ Redelivered) =>
        Abs(db) \in {Abs(x) : x \in IngestOnce(failedBatch[3], batch)}

\* a cycle failed after memoising an identity, and the re-delivery, served
\* by the cache, committed new rows
C9_Witness ==
    /\ ev.op = "commit" /\ Redelivered
    /\ Len(batch) >= 2
    /\ failedBatch[2] = "row"
    /\ Len(failedBatch[1]) >= 2
    /\ \E i \in 1..Len(cache) : cache[i].v.id \notin Ids(failedBatch[3].ds)
                                /\ cache[i].v.id \in Ids(db.ds)

\* C10 (per-stream fault isolation): when the HTTP call for one
\* DeployedStream fails (status other than 200, or requests.get raises on a
\* connection failure or timeout) or its response has no matching entry, the
\* observation recorded for that stream is (count 0, timestamp 0) and the
\* cycle goes on with the other streams.
C10_FaultIsolation ==
    [][(pc = "uframe" /\ ev'.op \in {"http_failed", "http_nomatch", "http_raised"}) =>
          /\ pc' = "uframe"
          /\ tx'.counts = Append(tx.counts, Counts(ev'.ret, 0, 0))]_vars


\* what status() was called on and what it gave
ClassifiedStream == DeployedById(db, classified[1])
ClassifiedRate == classified[2]
ClassifiedState == classified[3]
ClassifiedWarn == ExpectedOf(db, ClassifiedStream).warn_interval
ClassifiedFail == ExpectedOf(db, ClassifiedStream).fail_interval
Returned == classified # Null /\ ~RateRaises(ClassifiedRate)
RateIs(n) == ClassifiedRate[1] = n * ClassifiedRate[2]

\* a threshold is set when it is not null
IsSet(x) == x # Null
\* a threshold is set to a value other than zero
IsSetNonZero(x) == x # Null /\ x[1] # 0

\* the stated procedure, the expected-rate threshold being fail_interval
StatedProcedure(set(_), r, warn, fail) ==
    IF set(warn) /\ Below(r, warn)
    THEN IF set(fail) /\ Below(r, fail) THEN "PARTIAL" ELSE "OPERATIONAL"
    ELSE IF set(fail) /\ Below(r, fail) THEN "PARTIAL" ELSE "FAILURE"

\* the examples of the decision procedure
ProcedureExamples ==
    /\ (ClassifiedWarn = <<10>> /\ ClassifiedFail = <<5>> /\ RateIs(8))
          => ClassifiedState = "OPERATIONAL"
    /\ (ClassifiedWarn = <<10>> /\ ClassifiedFail = <<5>> /\ RateIs(3))
          => ClassifiedState = "PARTIAL"
    /\ (ClassifiedWarn = <<10>> /\ ClassifiedFail = <<5>> /\ RateIs(12))
          => ClassifiedState = "FAILURE"
    /\ (ClassifiedWarn = <<2>> /\ ClassifiedFail = Null /\ RateIs(1))
          => ClassifiedState = "OPERATIONAL"

C7_FewSamplesFailure ==
    (classified # Null /\ Cardinality(CountsOf(db, classified[1])) < 2)
        => ClassifiedState = "FAILURE"

\* the step stages one more Counts row
Appends == Len(tx'.counts) = Len(tx.counts) + 1
Appended == tx'.counts[Len(tx'.counts)]

\* C11 (dedup invariant, both collectors): a gather_all cycle appends a
\* Counts row for a stream only if the stream has no Counts yet or the
\* observed particle_count differs from the particle_count of the stream's
\* most recent Counts.
C11_DedupInvariant ==
    [][Appends =>
          \E last \in get_last_count(tx, Appended.stream) :
              last = Null \/ last[1].particle_count # Appended.particle_count]_vars

\* C12 (monotonic counters): in every reachable state, for every
\* DeployedStream, the particle_count values of its Counts rows taken in
\* timestamp order are non-decreasing.
C12_MonotonicCounters ==
    \A d \in db.ds : \A i, j \in CountsOf(db, d.id) :
        db.counts[i].timestamp < db.counts[j].timestamp
            => db.counts[i].particle_count <= db.counts[j].particle_count

\* C13 (append-only, timestamp-ordered log): a committed Counts row is never
\* modified or removed, and each newly appended row's timestamp is not
\* earlier than that of any existing row of its stream.
C13_AppendOnlyOrderedLog ==
    /\ [][IsPrefix(db.counts, db'.counts)]_vars
    /\ [][Appends =>
            \A i \in CountsOf(tx, Appended.stream) :
                tx.counts[i].timestamp <= Appended.timestamp]_vars

\* rows of q after the first n
Beyond(q, n) == {q[i] : i \in (n + 1)..Len(q)}

\* the store s has the identities of the store s0 and, beyond the Counts of
\* s0, only Counts of DeployedStreams of s0
OnlyCountsAdded(s0, s) ==
    /\ s.rd = s0.rd /\ s.es = s0.es /\ s.ds = s0.ds
    /\ IsPrefix(s0.counts, s.counts)
    /\ \A c \in Beyond(s.counts, Len(s0.counts)) : c.stream \in Ids(s0.ds)

\* C14 (per-stream collector creates no identities): every step of a
\* UframeStatusMonitor.gather_all cycle, its commit included, leaves the
\* ReferenceDesignator, ExpectedStream and DeployedStream rows as they were
\* when the cycle started, in the session and in the store, and adds Counts
\* only for DeployedStreams that existed then.
C14_NoIdentitiesCreated ==
    [][pc = "uframe" => OnlyCountsAdded(dbBegin, tx') /\ OnlyCountsAdded(dbBegin, db')]_vars

\* a per-stream cycle has committed Counts it added
C14_Witness ==
    /\ pc = "idle" /\ ev.op = "commit" /\ prevRow = Null /\ todo = {}
    /\ Len(db.counts) > Len(dbBegin.counts)
    /\ db.ds # {}

\* the step is a call of read_expected_csv; the row it imports
ImportStep == pc = "idle" /\ ev'.op \in {"import", "import_failed"}
ImportedRow == CsvRows[ev'.ret]
SameStream(e, row) == e.name = row[1] /\ e.method = row[2]

\* C15 (threshold import keeps ExpectedStream unique): after any
\* interleaving of imports and ingestion cycles there is at most one
\* ExpectedStream per (name, method), and importing a row whose (stream,
\* method) already exists neither fails nor adds a second record: it leaves
\* that one record with rate = expected rate, warn_interval = fail_interval
\* = timeout.
C15_ImportKeepsUnique ==
    /\ [](\A a, b \in db.es : (a.name = b.name /\ a.method = b.method) => a = b)
    /\ [][(ImportStep /\ \E e \in db.es : SameStream(e, ImportedRow)) =>
            /\ ev'.op = "import"
            /\ Cardinality({e \in db'.es : SameStream(e, ImportedRow)}) = 1
            /\ \A e \in db'.es : SameStream(e, ImportedRow) =>
                  /\ e.rate = <<ImportedRow[3]>>
                  /\ e.warn_interval = <<ImportedRow[4]>>
                  /\ e.fail_interval = <<ImportedRow[4]>>]_vars

\* days from 1900-01-01 to 1970-01-01: 70 years, 17 of them leap years
\* (1904, 1908, ..., 1968; 1900 is not one)
DaysFrom1900To1970 == 70 * 365 + 17

\* seconds from 1970-01-01T00:00:00Z to the source timestamp <<days, seconds>>
SecondsSince1970(ntp) == (ntp[1] - DaysFrom1900To1970) * 86400 + ntp[2]

\* C16 (epoch conversion): the offset is 2208988800 seconds (22089888
\* hundreds of seconds, 25567 days), and for every row the ingestion
\* pipeline stores, the Counts timestamp is the source timestamp minus that
\* offset, in seconds from 1970-01-01T00:00:00Z; source timestamp
\* 2208988800 is stored as 1970-01-01T00:00:00Z.
C16_EpochConversion ==
    /\ [](ntp_epoch_offset[1] * (SecondsPerDay \div 100) = 22089888 /\ ntp_epoch_offset[2] = 0)
    /\ [][(RowStep /\ ev'.appended) =>
            /\ Appended.timestamp = SecondsSince1970(batch'[Len(batch')][7])
            /\ batch'[Len(batch')][7] = <<25567, 0>> => Appended.timestamp = 0]_vars

\* the row of source timestamp 2208988800 was ingested and stored
C16_Witness ==
    /\ ev.op = "row" /\ ev.appended
    /\ LastRow[7] = <<25567, 0>>
    /\ tx.counts[Len(tx.counts)].timestamp = 0

\* C17 (classifier concurrent with ingestion): a status()/last_rate() call
\* interleaved at any point of an in-progress ingest cycle of the same
\* monitor completes with a classification; it neither fails, nor makes the
\* cycle fail, nor commits or rolls back the cycle's pending writes.
C17_ConcurrentClassifier ==
    [][(pc # "idle" /\ ev'.op \in {"status", "status_raised"}) =>
          /\ ev'.op = "status"
          /\ UNCHANGED <<db, tx, pendingBad, pc>>]_vars

\* the Counts rows of the classified stream, by position in the store
ClassifiedRows == CountsOf(db, classified[1])

\* rows i (newer) and j (older) are two rows of greatest timestamp of the stream
TwoLatest(i, j) ==
    /\ i \in ClassifiedRows /\ j \in ClassifiedRows /\ i # j
    /\ db.counts[i].timestamp >= db.counts[j].timestamp
    /\ \A k \in ClassifiedRows \ {i, j} : db.counts[k].timestamp <= db.counts[j].timestamp

SameThresholds == ClassifiedWarn # Null /\ ClassifiedFail = ClassifiedWarn

C20_RateWellDefined ==
    /\ \A i, j \in 1..Len(db.counts) :
          (i # j /\ db.counts[i].stream = db.counts[j].stream)
              => db.counts[i].timestamp # db.counts[j].timestamp
    /\ \A d \in db.ds : \A r \in last_rate(db, d.id) : ~RateRaises(r)

=============================================================================
